---- MODULE Spec2Model ----
(***************************************************************************)
(* Model of the speech-recognition data pipeline in src/neuralnet:         *)
(*   utils.py    TextProcess (character codec) and GreedyDecoder           *)
(*   dataset.py  SpecAugment, Data.__getitem__ and collate_fn_padd         *)
(* Python indices are 0-based; TLA+ sequences are 1-based, so the manifest *)
(* row with Python index i is manifest[i + 1].                             *)
(***************************************************************************)
EXTENDS Integers, Sequences, FiniteSets, TLC

VARIABLES
    \* ---- Data.__getitem__ (dataset.py 154-177)
    manifest,      \* self.data: the rows of the manifest
    log_ex,        \* self.log_ex
    pc,            \* "idle" | "running" | "done"
    idx,           \* the idx argument of the innermost __getitem__ frame
    depth,         \* number of nested __getitem__ frames
    attempted,     \* the idx values of the frames so far, outermost first
    outcome,       \* "none" | "returned" | the exception the caller sees
    result,        \* <<>> or <<the returned tuple>>
    \* ---- TextProcess (utils.py 49-82)
    text,          \* the argument of text_to_int_sequence
    tpc,           \* "start" | "encoded" | "decoded"
    int_sequence,  \* what text_to_int_sequence returned
    decoded,       \* what int_to_text_sequence returned
    \* ---- GreedyDecoder (utils.py 88-115), for one sample of the batch
    args,              \* arg_maxes[i]: the arg-max id of every time step
    collapse_repeated, \* the collapse_repeated argument
    dec_labels,        \* labels[i]
    dec_label_length,  \* label_lengths[i]
    j,                 \* the position of the inner loop, 0-based
    decode,            \* the list decode
    decodes,           \* the list decodes
    targets,           \* the list targets
    dpc,               \* "start" | "frames" | "done"
    \* ---- collate_fn_padd (dataset.py 182-215)
    data,          \* the argument: a list of sample tuples
    ci,            \* number of tuples the loop has consumed
    spectrograms,  \* the list, then the padded tensor
    labels,        \* the list, then the padded tensor
    input_lengths,
    label_lengths,
    cpc,           \* "loop" | "returned" | "raised"
    \* ---- SpecAugment (dataset.py 27-66)
    rate,          \* self.rate, as the numerator of rate / RandDenominator
    policy,        \* the policy the constructor selected
    apc,           \* "forward" | "policy1" | "policy2" | "policy3" | "done"
    dispatch,      \* the draw of policy3 (numerator), -1 before it is drawn
    probability,   \* the draw of policy1 or policy2 (numerator), -1 before
    applied        \* the transforms applied to x, in order; <<>>: x itself

getVars == <<manifest, log_ex, pc, idx, depth, attempted, outcome, result>>
codecVars == <<text, tpc, int_sequence, decoded>>
decVars == <<args, collapse_repeated, dec_labels, dec_label_length, j, decode,
             decodes, targets, dpc>>
colVars == <<data, ci, spectrograms, labels, input_lengths, label_lengths, cpc>>
augVars == <<rate, policy, apc, dispatch, probability, applied>>
vars == <<getVars, codecVars, decVars, colVars, augVars>>

----------------------------------------------------------------------------
(* Bounds of the model *)

\* largest number of manifest rows
MaxManifest == 3
\* stands for the interpreter's recursion limit (sys.getrecursionlimit())
RecursionLimit == 6
\* longest text given to the codec
MaxTextLen == 2

----------------------------------------------------------------------------
(* TextProcess: utils.py *)

\* the lines of char_map_str, each "ch index"
char_map_str ==
    << <<"'", 0>>, <<"<SPACE>", 1>>, <<"a", 2>>, <<"b", 3>>, <<"c", 4>>,
       <<"d", 5>>, <<"e", 6>>, <<"f", 7>>, <<"g", 8>>, <<"h", 9>>,
       <<"i", 10>>, <<"j", 11>>, <<"k", 12>>, <<"l", 13>>, <<"m", 14>>,
       <<"n", 15>>, <<"o", 16>>, <<"p", 17>>, <<"q", 18>>, <<"r", 19>>,
       <<"s", 20>>, <<"t", 21>>, <<"u", 22>>, <<"v", 23>>, <<"w", 24>>,
       <<"x", 25>>, <<"y", 26>>, <<"z", 27>> >>

\* self.char_map[ch] = int(index), for every line
char_map ==
    [ch \in {char_map_str[n][1] : n \in DOMAIN char_map_str} |->
        (CHOOSE n \in DOMAIN char_map_str : char_map_str[n][1] = ch) - 1]

\* self.index_map[int(index)] = ch for every line, then self.index_map[1] = ' '
index_map ==
    [i \in {char_map_str[n][2] : n \in DOMAIN char_map_str} |->
        IF i = 1 THEN " " ELSE char_map_str[i + 1][1]]

\* Python truthiness of a str: only the empty string is false
Truthy(s) == s # ""

\* the condition `c == ' ' or '.' or ','` of text_to_int_sequence:
\* (c == ' ') or ('.') or (','), the operands '.' and ',' being tested
\* for truth themselves
IsSpaceBranch(c) == (c = " ") \/ Truthy(".") \/ Truthy(",")

\* one iteration of the loop of text_to_int_sequence: the id appended for c,
\* or -1 when self.char_map[c] raises KeyError
CharToInt(c) ==
    IF IsSpaceBranch(c) THEN char_map["<SPACE>"]
    ELSE IF c \in DOMAIN char_map THEN char_map[c]
    ELSE -1

\* text_to_int_sequence(text): [raised |-> TRUE] when a lookup raised KeyError
text_to_int_sequence(t) ==
    IF \E n \in DOMAIN t : CharToInt(t[n]) = -1
    THEN [raised |-> TRUE, seq |-> <<>>]
    ELSE [raised |-> FALSE, seq |-> [n \in DOMAIN t |-> CharToInt(t[n])]]

\* int_to_text_sequence(labels): index_map[i] for each i, joined, with
\* '<SPACE>' replaced by ' '
int_to_text_sequence(lbls) ==
    [n \in DOMAIN lbls |->
        IF index_map[lbls[n]] = "<SPACE>" THEN " " ELSE index_map[lbls[n]]]

----------------------------------------------------------------------------
(* Data.__getitem__: dataset.py *)

\* the ceiling on spectrogram.shape[2]
Ceiling == 8000

Txt_empty == <<>>
Txt_cat == <<"c", "a", "t">>
Txt_unknown == <<"c", "#", "t">>
Txt_boundary == <<"a", ",", " ", "b", ".">>

\* A manifest row (key, text) together with what torchaudio.load and
\* self.audio_transforms make of the file at key: load_ok is FALSE when
\* loading raises; otherwise the spectrogram has shape
\* (channels, n_feats, frames).  SpecAugment masks values and keeps the shape.
Row(ok, ch, fr, tx) == [load_ok |-> ok, channels |-> ch, frames |-> fr, text |-> tx]

Rows ==
    { Row(FALSE, 1, 40, Txt_cat),          \* file missing or corrupt
      Row(TRUE, 1, 40, Txt_cat),
      Row(TRUE, 1, 6, Txt_cat),            \* spec_len = label_len
      Row(TRUE, 1, 4, Txt_cat),            \* spec_len < label_len
      Row(TRUE, 2, 40, Txt_cat),           \* dual channel
      Row(TRUE, 1, Ceiling, Txt_cat),
      Row(TRUE, 1, Ceiling + 1, Txt_cat),  \* too big
      Row(TRUE, 1, 40, Txt_empty),         \* empty label
      Row(TRUE, 1, 40, Txt_unknown),       \* character outside the alphabet
      Row(TRUE, 1, 40, Txt_boundary),
      Row(TRUE, 2, Ceiling + 1, Txt_empty) }

\* a valid row and a two-channel row, for manifests longer than MaxManifest
LongRows == { Row(TRUE, 1, 40, Txt_cat), Row(TRUE, 2, 40, Txt_cat) }

\* every manifest of up to MaxManifest rows, and manifests of LongRows long
\* enough for a run of invalid rows to outlast the call stack
Manifests ==
    UNION { [1..n -> Rows] : n \in 1..MaxManifest }
    \cup UNION { [1..n -> LongRows] : n \in (MaxManifest + 1)..(RecursionLimit + 1) }

\* .iloc[i] of a frame of n rows: positions -n..n-1 exist, negative ones
\* counting from the end; any other raises IndexError
InRange(i, n) == -n <= i /\ i < n
Iloc(rows, i) == IF i >= 0 THEN rows[i + 1] ELSE rows[Len(rows) + i + 1]

\* the four checks of the try block, in the order of the code: the message of
\* the first one that raises, "" when none does
\* (variant: the checks with the channel check left out)
ShapeChecks_NoChannelCheck(shape, spec_len, label_len) ==
    IF spec_len < label_len THEN "spectrogram len is bigger then label len"
    ELSE IF shape.frames > Ceiling THEN "spectrogram to big"
    ELSE IF label_len = 0 THEN "label len is zero"
    ELSE ""

ShapeChecks(shape, spec_len, label_len) ==
    IF spec_len < label_len THEN "spectrogram len is bigger then label len"
    ELSE IF shape.channels > 1 THEN "dual channel"
    ELSE IF shape.frames > Ceiling THEN "spectrogram to big"
    ELSE IF label_len = 0 THEN "label len is zero"
    ELSE ""

NoTuple == <<>>

\* The try block of __getitem__ for index i: the exception it raises ("" when
\* none), whether file_path was assigned before that, and the tuple built.
TryBlock(rows, i) ==
    IF ~InRange(i, Len(rows))
    THEN [exc |-> "IndexError", file_path_bound |-> FALSE, tuple |-> NoTuple]
    ELSE LET row == Iloc(rows, i)
             enc == text_to_int_sequence(row.text)
             shape == [channels |-> row.channels, frames |-> row.frames]
             spec_len == row.frames \div 2
             label_len == Len(enc.seq)
         IN  IF ~row.load_ok
             THEN [exc |-> "load failed", file_path_bound |-> TRUE, tuple |-> NoTuple]
             ELSE IF enc.raised
             THEN [exc |-> "KeyError", file_path_bound |-> TRUE, tuple |-> NoTuple]
             ELSE [exc |-> ShapeChecks(shape, spec_len, label_len),
                   file_path_bound |-> TRUE,
                   tuple |-> <<[spectrogram |-> shape, label |-> enc.seq,
                                spec_len |-> spec_len, label_len |-> label_len]>>]

\* the index of the recursive call: idx - 1 if idx != 0 else idx + 1
\* (variant: idx - 1 whatever idx is)
NeighborIndex_AlwaysDecrement(i) == i - 1

NeighborIndex(i) == IF i # 0 THEN i - 1 ELSE i + 1

\* the except clause reaches its return statement: print(str(e), file_path)
\* raises UnboundLocalError when log_ex is set and file_path was never assigned
HandlerPrints(t) == log_ex => t.file_path_bound

InitGet ==
    /\ manifest \in Manifests
    /\ log_ex \in BOOLEAN
    /\ pc = "idle"
    /\ idx = 0
    /\ depth = 0
    /\ attempted = <<>>
    /\ outcome = "none"
    /\ result = NoTuple

\* the data loader asks for one of the indices 0..len(self.data)-1
Call(i) ==
    /\ pc = "idle"
    /\ pc' = "running"
    /\ idx' = i
    /\ depth' = 1
    /\ UNCHANGED <<manifest, log_ex, attempted, outcome, result>>
    /\ UNCHANGED <<codecVars, decVars, colVars, augVars>>

\* the try block raises nothing: return spectrogram, label, spec_len, label_len
GetReturn ==
    /\ pc = "running"
    /\ TryBlock(manifest, idx).exc = ""
    /\ attempted' = Append(attempted, idx)
    /\ result' = TryBlock(manifest, idx).tuple
    /\ outcome' = "returned"
    /\ pc' = "done"
    /\ UNCHANGED <<manifest, log_ex, idx, depth>>
    /\ UNCHANGED <<codecVars, decVars, colVars, augVars>>

\* the try block raises: return self.__getitem__(neighbor)
GetRetry ==
    /\ pc = "running"
    /\ TryBlock(manifest, idx).exc # ""
    /\ HandlerPrints(TryBlock(manifest, idx))
    /\ depth < RecursionLimit
    /\ attempted' = Append(attempted, idx)
    /\ idx' = NeighborIndex(idx)
    /\ depth' = depth + 1
    /\ UNCHANGED <<manifest, log_ex, pc, outcome, result>>
    /\ UNCHANGED <<codecVars, decVars, colVars, augVars>>

\* the handler's print reads the unassigned file_path: the UnboundLocalError
\* leaves every enclosing handler and reaches the caller
GetUnboundLocal ==
    /\ pc = "running"
    /\ TryBlock(manifest, idx).exc # ""
    /\ ~HandlerPrints(TryBlock(manifest, idx))
    /\ attempted' = Append(attempted, idx)
    /\ outcome' = "UnboundLocalError"
    /\ pc' = "done"
    /\ UNCHANGED <<manifest, log_ex, idx, depth, result>>
    /\ UNCHANGED <<codecVars, decVars, colVars, augVars>>

\* the recursive call would exceed the interpreter's stack: the RecursionError
\* is raised inside the handlers and reaches the caller
GetRecursionError ==
    /\ pc = "running"
    /\ TryBlock(manifest, idx).exc # ""
    /\ HandlerPrints(TryBlock(manifest, idx))
    /\ depth = RecursionLimit
    /\ attempted' = Append(attempted, idx)
    /\ outcome' = "RecursionError"
    /\ pc' = "done"
    /\ UNCHANGED <<manifest, log_ex, idx, depth, result>>
    /\ UNCHANGED <<codecVars, decVars, colVars, augVars>>

----------------------------------------------------------------------------
(* TextProcess round trip *)

\* the characters texts are drawn from: the keys of char_map that are single
\* characters, the three boundary characters, and two outside the alphabet
Chars == (DOMAIN char_map \ {"<SPACE>"}) \cup {" ", ".", ",", "#", "A"}

Texts == UNION { [1..n -> Chars] : n \in 0..MaxTextLen }

IdleCodec ==
    /\ text = <<>>
    /\ tpc = "start"
    /\ int_sequence = <<>>
    /\ decoded = <<>>

InitCodec ==
    /\ text \in Texts
    /\ tpc = "start"
    /\ int_sequence = <<>>
    /\ decoded = <<>>

\* text_to_int_sequence(text); a KeyError leaves tpc = "KeyError"
EncodeText ==
    /\ tpc = "start"
    /\ int_sequence' = text_to_int_sequence(text).seq
    /\ tpc' = IF text_to_int_sequence(text).raised THEN "KeyError" ELSE "encoded"
    /\ UNCHANGED <<text, decoded>>
    /\ UNCHANGED <<getVars, decVars, colVars, augVars>>

\* int_to_text_sequence of the encoded text
DecodeText ==
    /\ tpc = "encoded"
    /\ decoded' = int_to_text_sequence(int_sequence)
    /\ tpc' = "decoded"
    /\ UNCHANGED <<text, int_sequence>>
    /\ UNCHANGED <<getVars, decVars, colVars, augVars>>

IdleGet ==
    /\ manifest = <<>>
    /\ log_ex = FALSE
    /\ pc = "idle"
    /\ idx = 0
    /\ depth = 0
    /\ attempted = <<>>
    /\ outcome = "none"
    /\ result = NoTuple

----------------------------------------------------------------------------
(* GreedyDecoder: utils.py *)

\* the default of the blank_label parameter
blank_label == 28

\* longest arg-max sequence
MaxFrames == 4
\* the arg-max ids are drawn from 0..MaxFrameId, the last character id and
\* the blank
MaxFrameId == 2

FrameIds == (0..MaxFrameId) \cup {27, blank_label}

ArgMaxes == UNION { [1..n -> FrameIds] : n \in 0..MaxFrames }

\* (labels[i], label_lengths[i]): a padded row of the label tensor and the
\* number of real ids in it
DecLabels == { <<<<4, 2, 21>>, 3>>, <<<<2, 1, 0>>, 2>> }

IdleDecoder ==
    /\ args = <<>>
    /\ collapse_repeated = TRUE
    /\ dec_labels = <<>>
    /\ dec_label_length = 0
    /\ j = 0
    /\ decode = <<>>
    /\ decodes = <<>>
    /\ targets = <<>>
    /\ dpc = "start"

InitDecoder ==
    /\ args \in ArgMaxes
    /\ collapse_repeated \in BOOLEAN
    /\ \E l \in DecLabels : dec_labels = l[1] /\ dec_label_length = l[2]
    /\ j = 0
    /\ decode = <<>>
    /\ decodes = <<>>
    /\ targets = <<>>
    /\ dpc = "start"

\* `collapse_repeated and j != 0 and index == args[j - 1]`, for the time
\* step with 0-based position k of a; dec is the list decode so far
\* (variant: compared with the id appended last instead of args[j - 1])
Repeated_OfLastEmitted(a, k, dec, collapse) ==
    collapse /\ dec # <<>> /\ a[k + 1] = dec[Len(dec)]

Repeated(a, k, dec, collapse) ==
    collapse /\ k # 0 /\ a[k + 1] = a[k]

\* decode = []; targets.append(int_to_text_sequence(labels[i][:label_lengths[i]]))
DecodeTargets ==
    /\ dpc = "start"
    /\ decode' = <<>>
    /\ targets' = Append(targets,
                         int_to_text_sequence(SubSeq(dec_labels, 1, dec_label_length)))
    /\ j' = 0
    /\ dpc' = "frames"
    /\ UNCHANGED <<args, collapse_repeated, dec_labels, dec_label_length, decodes>>
    /\ UNCHANGED <<getVars, codecVars, colVars, augVars>>

\* one time step whose id is the blank: nothing is appended
FrameBlank ==
    /\ dpc = "frames"
    /\ j < Len(args)
    /\ args[j + 1] = blank_label
    /\ j' = j + 1
    /\ UNCHANGED <<args, collapse_repeated, dec_labels, dec_label_length, decode,
                   decodes, targets, dpc>>
    /\ UNCHANGED <<getVars, codecVars, colVars, augVars>>

\* one time step that repeats the one before it: continue
FrameRepeated ==
    /\ dpc = "frames"
    /\ j < Len(args)
    /\ args[j + 1] # blank_label
    /\ Repeated(args, j, decode, collapse_repeated)
    /\ j' = j + 1
    /\ UNCHANGED <<args, collapse_repeated, dec_labels, dec_label_length, decode,
                   decodes, targets, dpc>>
    /\ UNCHANGED <<getVars, codecVars, colVars, augVars>>

\* any other time step: decode.append(index.item())
FrameAppend ==
    /\ dpc = "frames"
    /\ j < Len(args)
    /\ args[j + 1] # blank_label
    /\ ~Repeated(args, j, decode, collapse_repeated)
    /\ decode' = Append(decode, args[j + 1])
    /\ j' = j + 1
    /\ UNCHANGED <<args, collapse_repeated, dec_labels, dec_label_length,
                   decodes, targets, dpc>>
    /\ UNCHANGED <<getVars, codecVars, colVars, augVars>>

\* after the last time step: decodes.append(int_to_text_sequence(decode))
DecodeFinish ==
    /\ dpc = "frames"
    /\ j = Len(args)
    /\ decodes' = Append(decodes, int_to_text_sequence(decode))
    /\ dpc' = "done"
    /\ UNCHANGED <<args, collapse_repeated, dec_labels, dec_label_length, j,
                   decode, targets>>
    /\ UNCHANGED <<getVars, codecVars, colVars, augVars>>

----------------------------------------------------------------------------
(* collate_fn_padd: dataset.py *)

\* largest number of tuples in a batch
MaxBatch == 3
\* largest number of time frames of a spectrogram in a batch
MaxTime == 6

\* A spectrogram of T time frames as the sequence of its frames; the frame at
\* position p is given the value p, so that every real frame differs from the
\* zero that padding writes.
Spectrogram(T) == [isNone |-> FALSE, frames |-> [p \in 1..T |-> p]]
NoneSpectrogram == [isNone |-> TRUE, frames |-> <<>>]

CollateLabels == { <<1>>, <<0, 2>>, <<4, 2, 21>> }

\* the tuples __getitem__ builds: input_length = frames // 2,
\* label_length = len(label), input_length >= label_length; and tuples whose
\* spectrogram is None
Samples ==
    { s \in { [spectrogram |-> Spectrogram(T), label |-> l,
               input_length |-> T \div 2, label_length |-> Len(l)] :
                 T \in 2..MaxTime, l \in CollateLabels } :
        s.input_length >= s.label_length }
    \cup { [spectrogram |-> NoneSpectrogram, label |-> l,
            input_length |-> 0, label_length |-> Len(l)] : l \in {<<1>>} }

Batches == UNION { [1..n -> Samples] : n \in 0..MaxBatch }

RECURSIVE MaxLen(_)
MaxLen(rows) ==
    IF rows = <<>> THEN 0
    ELSE LET m == MaxLen(Tail(rows))
         IN  IF Len(Head(rows)) > m THEN Len(Head(rows)) ELSE m

\* the default padding_value of pad_sequence
padding_value == 0

PadTo(row, n) ==
    [p \in 1..n |-> IF p <= Len(row) THEN row[p] ELSE padding_value]

\* nn.utils.rnn.pad_sequence(rows, batch_first=True): every row padded at its
\* end to the longest row's length
\* (variant: every row cut or padded to the first row's length)
pad_sequence_ToFirstLength(rows) ==
    [r \in DOMAIN rows |-> PadTo(rows[r], Len(rows[1]))]

pad_sequence(rows) ==
    [r \in DOMAIN rows |-> PadTo(rows[r], MaxLen(rows))]

IdleCollate ==
    /\ data = <<>>
    /\ ci = 0
    /\ spectrograms = <<>>
    /\ labels = <<>>
    /\ input_lengths = <<>>
    /\ label_lengths = <<>>
    /\ cpc = "loop"

InitCollate ==
    /\ data \in Batches
    /\ ci = 0
    /\ spectrograms = <<>>
    /\ labels = <<>>
    /\ input_lengths = <<>>
    /\ label_lengths = <<>>
    /\ cpc = "loop"

\* a tuple whose spectrogram is None: continue
CollateSkip ==
    /\ cpc = "loop"
    /\ ci < Len(data)
    /\ data[ci + 1].spectrogram.isNone
    /\ ci' = ci + 1
    /\ UNCHANGED <<data, spectrograms, labels, input_lengths, label_lengths, cpc>>
    /\ UNCHANGED <<getVars, codecVars, decVars, augVars>>

\* any other tuple: the four appends
CollateAppend ==
    /\ cpc = "loop"
    /\ ci < Len(data)
    /\ ~data[ci + 1].spectrogram.isNone
    /\ spectrograms' = Append(spectrograms, data[ci + 1].spectrogram.frames)
    /\ labels' = Append(labels, data[ci + 1].label)
    /\ input_lengths' = Append(input_lengths, data[ci + 1].input_length)
    /\ label_lengths' = Append(label_lengths, data[ci + 1].label_length)
    /\ ci' = ci + 1
    /\ UNCHANGED <<data, cpc>>
    /\ UNCHANGED <<getVars, codecVars, decVars, augVars>>

\* after the loop: the two pad_sequence calls and the return
CollatePad ==
    /\ cpc = "loop"
    /\ ci = Len(data)
    /\ spectrograms # <<>>
    /\ spectrograms' = pad_sequence(spectrograms)
    /\ labels' = pad_sequence(labels)
    /\ cpc' = "returned"
    /\ UNCHANGED <<data, ci, input_lengths, label_lengths>>
    /\ UNCHANGED <<getVars, codecVars, decVars, augVars>>

\* after the loop with nothing appended: pad_sequence raises on an empty list
CollateEmpty ==
    /\ cpc = "loop"
    /\ ci = Len(data)
    /\ spectrograms = <<>>
    /\ cpc' = "raised"
    /\ UNCHANGED <<data, ci, spectrograms, labels, input_lengths, label_lengths>>
    /\ UNCHANGED <<getVars, codecVars, decVars, augVars>>

----------------------------------------------------------------------------
(* SpecAugment: dataset.py *)

\* torch.rand(1, 1).item() is drawn from n / RandDenominator,
\* n \in 0..RandDenominator-1, and rate from n / RandDenominator,
\* n \in 0..RandDenominator
RandDenominator == 8

Draws == 0..(RandDenominator - 1)

\* self.specaug and self.specaug2
specaug == <<"FrequencyMasking", "TimeMasking">>
specaug2 == <<"FrequencyMasking", "TimeMasking", "FrequencyMasking", "TimeMasking">>

\* `self.rate > probability`
\* (variant: `self.rate >= probability`)
Gate_OrEqual(r, p) == r >= p

Gate(r, p) == r > p

\* `probability > 0.5` of policy3
AboveHalf(p) == 2 * p > RandDenominator

IdleAugment ==
    /\ rate = 0
    /\ policy = 1
    /\ apc = "forward"
    /\ dispatch = -1
    /\ probability = -1
    /\ applied = <<>>

InitAugment ==
    /\ rate \in 0..RandDenominator
    /\ policy \in {1, 2, 3}
    /\ apc = "forward"
    /\ dispatch = -1
    /\ probability = -1
    /\ applied = <<>>

\* forward(x): self._forward(x), which is policies[policy]
Forward ==
    /\ apc = "forward"
    /\ apc' = CASE policy = 1 -> "policy1"
                [] policy = 2 -> "policy2"
                [] policy = 3 -> "policy3"
    /\ UNCHANGED <<rate, policy, dispatch, probability, applied>>
    /\ UNCHANGED <<getVars, codecVars, decVars, colVars>>

\* policy3 draws and delegates
Policy3(p) ==
    /\ apc = "policy3"
    /\ dispatch' = p
    /\ apc' = IF AboveHalf(p) THEN "policy1" ELSE "policy2"
    /\ UNCHANGED <<rate, policy, probability, applied>>
    /\ UNCHANGED <<getVars, codecVars, decVars, colVars>>

\* policy1 draws and applies self.specaug or returns x
Policy1(p) ==
    /\ apc = "policy1"
    /\ probability' = p
    /\ applied' = IF Gate(rate, p) THEN applied \o specaug ELSE applied
    /\ apc' = "done"
    /\ UNCHANGED <<rate, policy, dispatch>>
    /\ UNCHANGED <<getVars, codecVars, decVars, colVars>>

\* policy2 draws and applies self.specaug2 or returns x
Policy2(p) ==
    /\ apc = "policy2"
    /\ probability' = p
    /\ applied' = IF Gate(rate, p) THEN applied \o specaug2 ELSE applied
    /\ apc' = "done"
    /\ UNCHANGED <<rate, policy, dispatch>>
    /\ UNCHANGED <<getVars, codecVars, decVars, colVars>>

----------------------------------------------------------------------------
(* Specifications, one per component *)

\* Data.__getitem__
Init == InitGet /\ IdleCodec /\ IdleDecoder /\ IdleCollate /\ IdleAugment
Next ==
    \/ \E i \in 0..(Len(manifest) - 1) : Call(i)
    \/ GetReturn
    \/ GetRetry
    \/ GetUnboundLocal
    \/ GetRecursionError
Spec == Init /\ [][Next]_vars

\* TextProcess
InitCodecOnly == IdleGet /\ InitCodec /\ IdleDecoder /\ IdleCollate /\ IdleAugment
NextCodec == EncodeText \/ DecodeText
SpecCodec == InitCodecOnly /\ [][NextCodec]_vars

\* GreedyDecoder
InitDecoderOnly == IdleGet /\ IdleCodec /\ InitDecoder /\ IdleCollate /\ IdleAugment
NextDecoder == DecodeTargets \/ FrameBlank \/ FrameRepeated \/ FrameAppend \/ DecodeFinish
SpecDecoder == InitDecoderOnly /\ [][NextDecoder]_vars

\* collate_fn_padd
InitCollateOnly == IdleGet /\ IdleCodec /\ IdleDecoder /\ InitCollate /\ IdleAugment
NextCollate == CollateSkip \/ CollateAppend \/ CollatePad \/ CollateEmpty
SpecCollate == InitCollateOnly /\ [][NextCollate]_vars

\* SpecAugment
InitAugmentOnly == IdleGet /\ IdleCodec /\ IdleDecoder /\ IdleCollate /\ InitAugment
NextAugment ==
    \/ Forward
    \/ \E p \in Draws : Policy3(p)
    \/ \E p \in Draws : Policy1(p)
    \/ \E p \in Draws : Policy2(p)
SpecAugment == InitAugmentOnly /\ [][NextAugment]_vars

----------------------------------------------------------------------------
(* Vocabulary of the properties *)

\* the supported alphabet and the boundary characters
Alphabet == DOMAIN char_map \ {"<SPACE>"}
Boundary == {" ", ".", ","}

\* every real label id of the character map
RealLabelIds == {char_map[ch] : ch \in DOMAIN char_map}

Supported(t) == \A n \in DOMAIN t : t[n] \in Alphabet \cup Boundary

\* the id the character map gives a character: the word-boundary id for a
\* boundary character, its own id otherwise
OwnId(c) == IF c \in Boundary THEN char_map["<SPACE>"] ELSE char_map[c]

\* the row a get call met at its n-th attempt
AttemptedRow(n) == Iloc(manifest, attempted[n])

\* a row that breaks none of the invariants of a sample
RowValid(r) ==
    /\ r.load_ok
    /\ r.channels = 1
    /\ r.frames \div 2 >= Len(r.text)
    /\ r.frames <= Ceiling
    /\ Len(r.text) > 0

----------------------------------------------------------------------------
(* C1 *)

\* C1: every tuple __getitem__ returns, after any number of retries, has
\* spec_len >= label_len, label_len > 0, exactly one channel and at most
\* Ceiling time frames, and it is the tuple of the row attempted last, which
\* itself breaks none of these; nothing is returned otherwise.
C1_ReturnedTupleValid ==
    /\ outcome # "returned" => result = NoTuple
    /\ outcome = "returned" =>
        LET t == result[1]
            r == AttemptedRow(Len(attempted))
        IN  /\ t.spec_len >= t.label_len
            /\ t.label_len > 0
            /\ t.spectrogram.channels = 1
            /\ t.spectrogram.frames <= Ceiling
            /\ t.spectrogram = [channels |-> r.channels, frames |-> r.frames]
            /\ t.spec_len = r.frames \div 2
            /\ t.label_len = Len(r.text)
            /\ RowValid(r)

\* a tuple returned after two retries, its spectrogram exactly at the ceiling
C1_Witness ==
    /\ outcome = "returned"
    /\ Len(attempted) = 3
    /\ result[1].spectrogram.frames = Ceiling

----------------------------------------------------------------------------
(* C2 *)

\* C2: every get call ends after a bounded number of retries, with a valid
\* tuple or with a dataset-exhaustion error once the retry budget is spent;
\* no call goes on retrying until the call stack is exhausted.
C2_BoundedRetry == outcome # "RecursionError"

----------------------------------------------------------------------------
(* C3 *)

\* the time steps the standard CTC greedy collapse keeps: not the blank, and
\* not equal to the id of the step just before (the first step has none)
Keeps(a, p) == a[p] # blank_label /\ (p = 1 \/ a[p] # a[p - 1])

RECURSIVE CTCCollapse(_, _)
CTCCollapse(a, n) ==
    IF n = 0 THEN <<>>
    ELSE IF Keeps(a, n) THEN Append(CTCCollapse(a, n - 1), a[n])
    ELSE CTCCollapse(a, n - 1)

\* C3: with collapse_repeated the prediction is the standard CTC greedy
\* collapse of the arg-max ids, rendered by the index map; so a run of one
\* non-blank id k decodes to one character, and [k, k, blank, k] to two.
C3_GreedyCollapse ==
    (dpc = "done" /\ collapse_repeated) =>
        /\ decodes = << int_to_text_sequence(CTCCollapse(args, Len(args))) >>
        /\ (args # <<>> /\ args[1] # blank_label
              /\ \A p \in DOMAIN args : args[p] = args[1])
            => decodes = << <<index_map[args[1]]>> >>
        /\ \A k \in FrameIds \ {blank_label} :
            args = <<k, k, blank_label, k>>
            => decodes = << <<index_map[k], index_map[k]>> >>

\* the frames [a, a, blank, a] decoded to "aa"
C3_Witness ==
    /\ dpc = "done"
    /\ collapse_repeated
    /\ args = <<2, 2, blank_label, 2>>
    /\ decodes = << <<"a", "a">> >>

----------------------------------------------------------------------------
(* C4 *)

\* the tuples of the batch whose spectrogram is not None, in input order
NonNull == SelectSeq(data, LAMBDA s : ~s.spectrogram.isNone)

MaxOf(S) == CHOOSE m \in S : \A n \in S : n <= m

\* row is `real` followed by padding only, n long in all
PaddedFrom(row, real, n) ==
    /\ Len(row) = n
    /\ SubSeq(row, 1, Len(real)) = real
    /\ \A p \in (Len(real) + 1)..n : row[p] = padding_value

\* C4: the batch collate_fn_padd returns has one row per non-None tuple, in
\* input order; every spectrogram row is as long as the longest spectrogram
\* and every label row as long as the longest label; row i of each tensor is
\* the i-th non-None tuple's own data followed by padding, and entry i of each
\* length vector is that tuple's own length.
C4_CollateShape ==
    cpc = "returned" =>
        LET nn == NonNull
            maxT == MaxOf({Len(nn[i].spectrogram.frames) : i \in DOMAIN nn})
            maxL == MaxOf({Len(nn[i].label) : i \in DOMAIN nn})
        IN  /\ Len(spectrograms) = Len(nn)
            /\ Len(labels) = Len(nn)
            /\ Len(input_lengths) = Len(nn)
            /\ Len(label_lengths) = Len(nn)
            /\ \A i \in DOMAIN nn :
                /\ PaddedFrom(spectrograms[i], nn[i].spectrogram.frames, maxT)
                /\ PaddedFrom(labels[i], nn[i].label, maxL)
                /\ input_lengths[i] = nn[i].input_length
                /\ label_lengths[i] = nn[i].label_length

\* a batch with a None tuple between two tuples of different lengths, the
\* longer one last
C4_Witness ==
    /\ cpc = "returned"
    /\ Len(data) = 3
    /\ data[2].spectrogram.isNone
    /\ Len(spectrograms) = 2
    /\ Len(data[1].spectrogram.frames) < Len(data[3].spectrogram.frames)
    /\ Len(data[1].label) < Len(data[3].label)

----------------------------------------------------------------------------
(* C5 *)

\* C5: decoding the encoding of a text of alphabet and boundary characters
\* gives the text back with every boundary character replaced by one space
\* and every other character unchanged.
C5_RoundTrip ==
    (tpc = "decoded" /\ Supported(text)) =>
        decoded = [n \in DOMAIN text |->
                      IF text[n] \in Boundary THEN " " ELSE text[n]]

----------------------------------------------------------------------------
(* C6 *)

\* C6: a get call whose first row loads, has one channel, a supported
\* non-empty transcript and frames // 2 >= len(transcript) (and no more than
\* Ceiling frames) returns at once, with every character's own id as the
\* label, label_len = len(transcript) and spec_len = frames // 2.
C6_OwnIdsLabel ==
    (pc = "done" /\ RowValid(AttemptedRow(1)) /\ Supported(AttemptedRow(1).text)) =>
        LET r == AttemptedRow(1)
        IN  /\ outcome = "returned"
            /\ Len(attempted) = 1
            /\ result[1].label = [n \in DOMAIN r.text |-> OwnId(r.text[n])]
            /\ result[1].label_len = Len(r.text)
            /\ result[1].spec_len = r.frames \div 2

----------------------------------------------------------------------------
(* C7 *)

HasUnknownChar(t) == \E n \in DOMAIN t : t[n] \notin Alphabet \cup Boundary

\* C7: when a get call encodes a transcript holding a character outside the
\* alphabet, the call ends with the unknown-character error; it returns no
\* tuple, neither that row's nor a neighbor's.
C7_UnknownCharFatal ==
    (pc = "done"
       /\ \E n \in DOMAIN attempted :
            /\ InRange(attempted[n], Len(manifest))
            /\ AttemptedRow(n).load_ok
            /\ HasUnknownChar(AttemptedRow(n).text))
    => outcome = "KeyError"

----------------------------------------------------------------------------
(* C8 *)

\* C8: no padded position of the label tensor holds a real label id of the
\* character map.
C8_PadDistinct ==
    cpc = "returned" =>
        \A r \in DOMAIN labels :
            \A p \in (label_lengths[r] + 1)..Len(labels[r]) :
                labels[r][p] \notin RealLabelIds

----------------------------------------------------------------------------
(* C9 *)

----------------------------------------------------------------------------
(* C10 *)

----------------------------------------------------------------------------
(* C11 *)

Max2(a, b) == IF a >= b THEN a ELSE b

\* the valid rows at an index <= i
ValidUpTo(i) == {v \in 0..i : RowValid(Iloc(manifest, v))}

\* the indices attempted so far, and the one being attempted, lie in
\* 0..max(i, 1), i the index the call started with
AttemptedInRange ==
    (pc # "idle" /\ Len(manifest) >= 2) =>
        LET i == IF attempted = <<>> THEN idx ELSE attempted[1]
        IN  /\ \A n \in DOMAIN attempted : attempted[n] \in 0..Max2(i, 1)
            /\ pc = "running" => idx \in 0..Max2(i, 1)
            /\ Max2(i, 1) <= Len(manifest) - 1

\* a finished call that started at i with a valid row at v <= i, v the largest
\* such, returned row v's tuple after attempting exactly i, i - 1, ..., v
DescendedToLargestValid ==
    LET i == attempted[1]
        v == MaxOf(ValidUpTo(i))
    IN  /\ outcome = "returned"
        /\ attempted = [n \in 1..(i - v + 1) |-> i - n + 1]
        /\ result[1].spectrogram.frames = Iloc(manifest, v).frames
        /\ result[1].label_len = Len(Iloc(manifest, v).text)

\* C11: with at least two rows, every index a get(i) attempts lies in
\* 0..max(i, 1); and whenever a row at an index <= i is valid, get(i) returns
\* the tuple of the largest such index, having attempted exactly i, i - 1, ...
\* down to it in that order.
C11_DescendToLargestValid ==
    /\ AttemptedInRange
    /\ (pc = "done" /\ Len(manifest) >= 2 /\ ValidUpTo(attempted[1]) # {})
        => DescendedToLargestValid

\* the same, for the calls whose descent from i to the largest valid index
\* needs no more frames than the call stack holds
C11_WithinStack ==
    /\ AttemptedInRange
    /\ (pc = "done" /\ Len(manifest) >= 2 /\ ValidUpTo(attempted[1]) # {}
          /\ attempted[1] - MaxOf(ValidUpTo(attempted[1])) < RecursionLimit)
        => DescendedToLargestValid

====
